---- MODULE Spec2Model ----
(***************************************************************************)
(* Connect Four rules engine (class Connect4) and its adapter (class Game) *)
(* of games/connect4.py, as a state machine.                               *)
(*                                                                         *)
(* The engine's state is the 6x7 grid `board` (board[j][i] is row j,       *)
(* column i, row 0 at the bottom) and the mover `player` (+1 or -1).  The  *)
(* remaining variables are the driver's: the call it made last (`call`),   *)
(* what that call returned (`observation`, `reward`, `done`) or whether it *)
(* raised (`raised`), the number of steps completed since the last reset   *)
(* (`moves`), and the arguments a scripted driver has still to pass        *)
(* (`script`).                                                             *)
(*                                                                         *)
(* Specifications, all from the same initial state:                        *)
(*   Spec             free play through Game.step, MaxMoves steps;         *)
(*   SpecScript       scripted play through Game.step, up to the full grid;*)
(*   SpecEpisode      scripted play of legal actions, ended by done;       *)
(*   SpecQuery        scripted play with to_play, legal_actions, render;   *)
(*   SpecEngine       scripted calls of Connect4.step without the adapter; *)
(*   SpecTemperature  calls of visit_softmax_temperature_fn.               *)
(***************************************************************************)
EXTENDS Integers, Sequences, FiniteSets, TLC

VARIABLES board, player, call, observation, reward, done, raised, moves, script

vars == <<board, player, call, observation, reward, done, raised, moves, script>>

(* numpy.zeros((6, 7)): the shape of the grid. *)
NumRows == 6
NumCols == 7

Rows == 0 .. (NumRows - 1)
Cols == 0 .. (NumCols - 1)

(* Number of Game.step calls the free-play driver makes between resets. *)
MaxMoves == 6

(* Arguments the free-play driver passes to Game.step: every column, and   *)
(* the out-of-range integers -1 and 10.                                    *)
Actions == (-1 .. (NumCols - 1)) \cup {10}

(* Number of Game.step calls a scripted driver makes in one episode: 42    *)
(* fill the grid, the remaining ones meet the full grid.                   *)
ScriptLen == 44

(***************************************************************************)
(* Scripts of the scripted driver, each a sequence of ScriptLen arguments. *)
(*   run_script(s, n, t): n times column s, then n times column s + t      *)
(*     (mod 7), and so on; t = 1 walks to the right, t = 6 to the left;    *)
(*     n = 1 fills the grid row by row, n = 6 column by column.            *)
(*   pair_script(x, y): the player to move stacks column x, the other      *)
(*     player column y.                                                    *)
(*   const_script(a): argument a every time.                               *)
(*   lifted(j, sc): j rows laid in the column order draw_row, then sc.     *)
(*     Rows laid in that order read + + - - + + - and - - + + - - +        *)
(*     alternately, so they hold no four in a line; lifted(6, sc) is a     *)
(*     game of 42 legal moves that nobody wins.                            *)
(* A scripted argument that meets a full column is an illegal action like  *)
(* any other.                                                              *)
(***************************************************************************)
run_script(s, n, t) == [m \in 1 .. ScriptLen |-> (s + t * ((m - 1) \div n)) % NumCols]

pair_script(x, y) == [m \in 1 .. ScriptLen |-> IF m % 2 = 1 THEN x ELSE y]

const_script(a) == [m \in 1 .. ScriptLen |-> a]

draw_row == <<0, 2, 1, 3, 4, 6, 5>>

lifted(j, sc) ==
    [m \in 1 .. ScriptLen |->
        IF m <= NumCols * j THEN draw_row[((m - 1) % NumCols) + 1] ELSE sc[m - NumCols * j]]

BaseScripts ==
    {run_script(s, n, t) : s \in Cols, n \in 1 .. NumRows, t \in {1, NumCols - 1}}
    \cup {pair_script(x, y) : x \in Cols, y \in Cols}
    \cup {const_script(a) : a \in {0 - 1, NumCols, 10}}

Scripts == {lifted(j, sc) : j \in 0 .. NumRows, sc \in BaseScripts}

(* numpy.zeros((6, 7)).astype(int) *)
zeros == [j \in Rows |-> [i \in Cols |-> 0]]

(* MuZeroConfig.players: [i for i in range(2)]. *)
players == <<0, 1>>

(* Mutant of Connect4_to_play: the raw mover is returned. *)
Connect4_to_play_raw(p) == p

(* Connect4.to_play, on mover p. *)
Connect4_to_play(p) == IF p = 1 THEN 0 ELSE 1

(* Game.to_play: delegates to the engine. *)
to_play == Connect4_to_play(player)

(* Mutant of get_observation: the grid is never negated. *)
get_observation_raw(b, p) == b

(* Connect4.get_observation: the grid itself for mover +1, its negation    *)
(* for mover -1.                                                           *)
get_observation(b, p) ==
    IF p = 1 THEN b ELSE [j \in Rows |-> [i \in Cols |-> 0 - b[j][i]]]

(* numpy.array(m).flatten(): row-major, entry 7*j + i (0-based) is m[j][i];*)
(* a TLA+ sequence is 1-based, so that entry is element 7*j + i + 1.       *)
flatten(m) ==
    [k \in 1 .. (NumRows * NumCols) |-> m[(k - 1) \div NumCols][(k - 1) % NumCols]]

(* Mutant of legal_columns: the outer loop runs over range(6). *)
legal_columns_six(b) ==
    SelectSeq([k \in 1 .. (NumCols - 1) |-> k - 1], LAMBDA i : \E j \in 0 .. 5 : b[j][i] = 0)

(* Connect4.legal_actions on grid b: the loop over i in range(7) appends i *)
(* as soon as some row j in range(6) of column i is empty.                 *)
legal_columns(b) ==
    SelectSeq([k \in 1 .. 7 |-> k - 1], LAMBDA i : \E j \in 0 .. 5 : b[j][i] = 0)

legal_actions == legal_columns(board)

(* `x in list` of Python. *)
In(x, list) == \E k \in 1 .. Len(list) : list[k] = x

(* Mutants of the scans: each loses its last window start. *)
horizontal_check_short(b, p) ==
    \E i \in 0 .. 2 : \E j \in 0 .. 5 :
        /\ b[j][i] = p
        /\ b[j][i + 1] = p
        /\ b[j][i + 2] = p
        /\ b[j][i + 3] = p

vertical_check_short(b, p) ==
    \E i \in 0 .. 6 : \E j \in 0 .. 1 :
        /\ b[j][i] = p
        /\ b[j + 1][i] = p
        /\ b[j + 2][i] = p
        /\ b[j + 3][i] = p

x_diag_check_short(b, p) ==
    \E i \in 0 .. 3 : \E j \in 0 .. 1 :
        /\ b[j][i] = p
        /\ b[j + 1][i + 1] = p
        /\ b[j + 2][i + 2] = p
        /\ b[j + 3][i + 3] = p

minus_x_diag_check_short(b, p) ==
    \E i \in 0 .. 2 : \E j \in 3 .. 5 :
        /\ b[j][i] = p
        /\ b[j - 1][i + 1] = p
        /\ b[j - 2][i + 2] = p
        /\ b[j - 3][i + 3] = p

(* The four scans of Connect4.is_finished for mark p on grid b. *)
horizontal_check(b, p) ==
    \E i \in 0 .. 3 : \E j \in 0 .. 5 :
        /\ b[j][i] = p
        /\ b[j][i + 1] = p
        /\ b[j][i + 2] = p
        /\ b[j][i + 3] = p

vertical_check(b, p) ==
    \E i \in 0 .. 6 : \E j \in 0 .. 2 :
        /\ b[j][i] = p
        /\ b[j + 1][i] = p
        /\ b[j + 2][i] = p
        /\ b[j + 3][i] = p

x_diag_check(b, p) ==
    \E i \in 0 .. 3 : \E j \in 0 .. 2 :
        /\ b[j][i] = p
        /\ b[j + 1][i + 1] = p
        /\ b[j + 2][i + 2] = p
        /\ b[j + 3][i + 3] = p

minus_x_diag_check(b, p) ==
    \E i \in 0 .. 3 : \E j \in 3 .. 5 :
        /\ b[j][i] = p
        /\ b[j - 1][i + 1] = p
        /\ b[j - 2][i + 2] = p
        /\ b[j - 3][i + 3] = p

(* Mutant of is_finished: a grid without an empty cell also ends the game. *)
is_finished_or_full(b, p) ==
    \/ horizontal_check(b, p)
    \/ vertical_check(b, p)
    \/ x_diag_check(b, p)
    \/ minus_x_diag_check(b, p)
    \/ \A j \in Rows, i \in Cols : b[j][i] # 0

(* Mutant of is_finished: a four in a line of either mark ends the game.   *)
is_finished_either(b, p) ==
    \E q \in {p, 0 - p} :
        \/ horizontal_check(b, q)
        \/ vertical_check(b, q)
        \/ x_diag_check(b, q)
        \/ minus_x_diag_check(b, q)

(* Connect4.is_finished with self.board = b and self.player = p. *)
is_finished(b, p) ==
    \/ horizontal_check(b, p)
    \/ vertical_check(b, p)
    \/ x_diag_check(b, p)
    \/ minus_x_diag_check(b, p)

(* The loop of Connect4.step: the first row i in range(6) whose cell in    *)
(* column a is empty receives the mover's mark; a full column receives     *)
(* nothing.                                                                *)
empty_rows(b, a) == {i \in Rows : b[i][a] = 0}

(* Mutant of lowest_empty_row: the loop runs from the top row down. *)
highest_empty_row(b, a) == CHOOSE i \in empty_rows(b, a) : \A k \in empty_rows(b, a) : i >= k

lowest_empty_row(b, a) == CHOOSE i \in empty_rows(b, a) : \A k \in empty_rows(b, a) : i <= k

(* Mutant of place: the loop has no break, every empty cell of the column *)
(* receives the mark.                                                      *)
place_no_break(b, p, a) ==
    [j \in Rows |-> [i \in Cols |-> IF i = a /\ b[j][i] = 0 THEN p ELSE b[j][i]]]

place(b, p, a) ==
    IF empty_rows(b, a) = {}
    THEN b
    ELSE [b EXCEPT ![lowest_empty_row(b, a)][a] = p]

(* Mutant of Connect4_step: the mover is not flipped. *)
Connect4_step_no_flip(b, p, a) ==
    LET nb == place(b, p, a)
        fin == is_finished(nb, p)
    IN  [board |-> nb,
         player |-> p,
         observation |-> get_observation(nb, p),
         reward |-> IF fin THEN 1 ELSE 0,
         done |-> fin]

(* Connect4.step(a) for a column a in 0..6, from grid b and mover p: the   *)
(* new grid and mover and the returned triple.                             *)
Connect4_step(b, p, a) ==
    LET nb == place(b, p, a)
        fin == is_finished(nb, p)
    IN  [board |-> nb,
         player |-> p * (0 - 1),
         observation |-> get_observation(nb, p * (0 - 1)),
         reward |-> IF fin THEN 1 ELSE 0,
         done |-> fin]

(* Game.__init__ -> Connect4.__init__.  Nothing has been returned yet. *)
Constructed ==
    /\ board = zeros
    /\ player = 1
    /\ call = [op |-> "init"]
    /\ observation = <<>>
    /\ reward = 0
    /\ done = FALSE
    /\ raised = FALSE
    /\ moves = 0

(* Mutant of Game_reset: the mover is not set back to +1. *)
Game_reset_keeps_player ==
    /\ board' = zeros
    /\ UNCHANGED player
    /\ call' = [op |-> "reset"]
    /\ observation' = flatten(get_observation(zeros, player))
    /\ raised' = FALSE
    /\ moves' = 0
    /\ UNCHANGED <<reward, done>>

(* Game.reset -> Connect4.reset. *)
Game_reset ==
    /\ board' = zeros
    /\ player' = 1
    /\ call' = [op |-> "reset"]
    /\ observation' = flatten(get_observation(zeros, 1))
    /\ raised' = FALSE
    /\ moves' = 0
    /\ UNCHANGED <<reward, done>>

(* Game.step, line 97: legal_actions()[0], the substituted action. *)
first_legal(legal) == legal[1]

(* Mutant of penalty: a substituted move that wins keeps its own outcome. *)
penalty_unless_won(r) == IF r.done THEN r ELSE [r EXCEPT !.reward = 0 - 1, !.done = TRUE]

(* Game.step, lines 98-99: the outcome of the substituted move is replaced *)
(* by reward -1 and done True.                                             *)
penalty(r) == [r EXCEPT !.reward = 0 - 1, !.done = TRUE]

(* Game.step, line 103: the engine has moved to r.board and r.player and   *)
(* the flattened observation, the reward and done are returned.            *)
Return(r) ==
    /\ board' = r.board
    /\ player' = r.player
    /\ observation' = flatten(r.observation)
    /\ reward' = r.reward
    /\ done' = r.done
    /\ raised' = FALSE
    /\ moves' = moves + 1

(* Game.step, line 97 on an empty list: legal_actions()[0] raises          *)
(* IndexError before the engine is touched; nothing is returned.           *)
Raise ==
    /\ raised' = TRUE
    /\ UNCHANGED <<board, player, observation, reward, done, moves>>

(* Mutant of Game_step: an illegal action is penalised without a           *)
(* substituted move.                                                       *)
Game_step_no_fallback(action) ==
    /\ call' = [op |-> "step", action |-> action]
    /\ IF ~In(action, legal_actions)
       THEN Return([board |-> board, player |-> player,
                    observation |-> get_observation(board, player),
                    reward |-> 0 - 1, done |-> TRUE])
       ELSE Return(Connect4_step(board, player, action))

(* Game.step(action). *)
Game_step(action) ==
    /\ call' = [op |-> "step", action |-> action]
    /\ IF ~In(action, legal_actions)
       THEN IF Len(legal_actions) = 0
            THEN Raise
            ELSE Return(penalty(Connect4_step(board, player, first_legal(legal_actions))))
       ELSE Return(Connect4_step(board, player, action))

(***************************************************************************)
(* Free play: the driver passes any argument of Actions, at most MaxMoves  *)
(* steps per episode, and resets at any time.                              *)
(***************************************************************************)
Init == Constructed /\ script = <<>>

Reset == Game_reset /\ script' = <<>>

Step == \E a \in Actions : moves < MaxMoves /\ Game_step(a) /\ UNCHANGED script

Next == Reset \/ Step

Spec == Init /\ [][Next]_vars

(***************************************************************************)
(* Scripted play: on a constructed or reset game the driver picks a script *)
(* and then passes its arguments in order, so that an episode runs until   *)
(* all 42 cells are occupied and beyond; it resets at any time.            *)
(***************************************************************************)
ChooseScript ==
    /\ script = <<>>
    /\ call.op \in {"init", "reset"}
    /\ script' \in Scripts
    /\ UNCHANGED <<board, player, call, observation, reward, done, raised, moves>>

ScriptStep == script # <<>> /\ Game_step(Head(script)) /\ script' = Tail(script)

NextScript == Reset \/ ChooseScript \/ ScriptStep

SpecScript == Init /\ [][NextScript]_vars

(***************************************************************************)
(* Direct use of the engine, without the adapter: the driver calls         *)
(* Connect4.reset and Connect4.step itself, with scripted arguments.       *)
(***************************************************************************)

(* self.board[i][action], line 152, on a numpy array of 7 columns: an      *)
(* index in -7..-1 counts from the last column, an index outside -7..6     *)
(* raises IndexError.                                                      *)
in_bounds(action) == (0 - NumCols) <= action /\ action <= NumCols - 1

column_index(action) == IF action < 0 THEN action + NumCols ELSE action

(* Connect4.reset called directly: the observation is the 6x7 grid. *)
Connect4_reset ==
    /\ board' = zeros
    /\ player' = 1
    /\ call' = [op |-> "reset"]
    /\ observation' = get_observation(zeros, 1)
    /\ raised' = FALSE
    /\ moves' = 0
    /\ script' = <<>>
    /\ UNCHANGED <<reward, done>>

(* Connect4.step(action) called directly.  The first evaluation of         *)
(* self.board[i][action] raises for an index out of bounds, before         *)
(* anything is written; otherwise the call runs to its return, whether or  *)
(* not the loop has found an empty cell.                                   *)
Engine_step(action) ==
    /\ call' = [op |-> "engine_step", action |-> action]
    /\ IF ~in_bounds(action)
       THEN Raise
       ELSE LET r == Connect4_step(board, player, column_index(action))
            IN  /\ board' = r.board
                /\ player' = r.player
                /\ observation' = r.observation
                /\ reward' = r.reward
                /\ done' = r.done
                /\ raised' = FALSE
                /\ moves' = moves + 1

EngineStep == script # <<>> /\ Engine_step(Head(script)) /\ script' = Tail(script)

NextEngine == Connect4_reset \/ ChooseScript \/ EngineStep

SpecEngine == Init /\ [][NextEngine]_vars

(***************************************************************************)
(* Well-behaved episodes: the driver passes the arguments of its script    *)
(* only while they are legal actions, and makes no further step once a     *)
(* step of the episode has returned done True.                             *)
(***************************************************************************)
EpisodeOver == call.op = "step" /\ done

EpisodeStep ==
    /\ script # <<>>
    /\ ~EpisodeOver
    /\ In(Head(script), legal_actions)
    /\ Game_step(Head(script))
    /\ script' = Tail(script)

NextEpisode == Reset \/ ChooseScript \/ EpisodeStep

SpecEpisode == Init /\ [][NextEpisode]_vars

(***************************************************************************)
(* Scripted play with queries: between the steps the driver may call       *)
(* to_play() and legal_actions(); `call` records what the query returned.  *)
(***************************************************************************)

(* Mutant of LegalActionsCall: the columns are tried out by placing the    *)
(* mover's mark in the first one with room, and the mark is left there.    *)
LegalActionsCall_marks ==
    /\ legal_actions # <<>>
    /\ board' = place(board, player, first_legal(legal_actions))
    /\ call' = [op |-> "legal_actions", returned |-> legal_columns(board')]
    /\ UNCHANGED <<player, observation, reward, done, raised, moves, script>>

(* Connect4.legal_actions(): builds and returns a new list; assigns to no  *)
(* attribute of the engine.                                                *)
LegalActionsCall ==
    /\ call' = [op |-> "legal_actions", returned |-> legal_actions]
    /\ UNCHANGED <<board, player, observation, reward, done, raised, moves, script>>

(* Game.to_play() -> Connect4.to_play(): returns 0 or 1; assigns to no     *)
(* attribute of the engine.                                                *)
ToPlayCall ==
    /\ call' = [op |-> "to_play", returned |-> to_play]
    /\ UNCHANGED <<board, player, observation, reward, done, raised, moves, script>>

(* player * m for a matrix m (numpy scalar multiplication). *)
scaled(p, m) == [j \in DOMAIN m |-> [i \in DOMAIN m[j] |-> p * m[j][i]]]

(* m[::-1] as the sequence of printed lines: line k is row 6 - k. *)
reversed(m) == [k \in 1 .. NumRows |-> m[NumRows - k]]

(* Mutant of Connect4_render: the rows are printed in storage order.       *)
Connect4_render_unreversed(b, p) ==
    [k \in 1 .. NumRows |-> scaled(p, get_observation(b, p))[k - 1]]

(* Connect4.render: print(self.player * self.get_observation()[::-1]).     *)
Connect4_render(b, p) == scaled(p, reversed(get_observation(b, p)))

(* Game.render(): self.env.render(), then waits for the enter key;         *)
(* `call` records the printed lines.                                       *)
RenderCall ==
    /\ call' = [op |-> "render", printed |-> Connect4_render(board, player)]
    /\ UNCHANGED <<board, player, observation, reward, done, raised, moves, script>>

NextQuery ==
    Reset \/ ChooseScript \/ ScriptStep \/ LegalActionsCall \/ ToPlayCall \/ RenderCall

SpecQuery == Init /\ [][NextQuery]_vars

(***************************************************************************)
(* MuZeroConfig.visit_softmax_temperature_fn, called by the trainer with a *)
(* step count that only grows.                                             *)
(***************************************************************************)

(* MuZeroConfig.training_steps. *)
training_steps == 10000

(* The largest step count the trainer passes. *)
MaxTrainedSteps == 10050

(* The trainer asks again after one training step or after a long pause.   *)
Strides == {1, 2600}

(* Mutant of visit_softmax_temperature_fn: the thresholds compare with <=. *)
visit_softmax_temperature_fn_le(trained_steps) ==
    IF 2 * trained_steps <= training_steps THEN 100
    ELSE IF 4 * trained_steps <= 3 * training_steps THEN 50
    ELSE 25

(* visit_softmax_temperature_fn(trained_steps), the temperature in          *)
(* hundredths (1.0, 0.5, 0.25 are 100, 50, 25).  The tests                 *)
(* trained_steps < 0.5 * training_steps and < 0.75 * training_steps are    *)
(* written without fractions: 2 * t < T and 4 * t < 3 * T.                 *)
visit_softmax_temperature_fn(trained_steps) ==
    IF 2 * trained_steps < training_steps THEN 100
    ELSE IF 4 * trained_steps < 3 * training_steps THEN 50
    ELSE 25

TemperatureCall ==
    \E d \in Strides :
        LET last == IF call.op = "visit_softmax_temperature_fn" THEN call.trained_steps ELSE 0 - 1
            t == last + d
        IN  /\ t <= MaxTrainedSteps
            /\ call' = [op |-> "visit_softmax_temperature_fn", trained_steps |-> t,
                        returned |-> visit_softmax_temperature_fn(t)]
            /\ UNCHANGED <<board, player, observation, reward, done, raised, moves, script>>

NextTemperature == TemperatureCall

SpecTemperature == Init /\ [][NextTemperature]_vars

(***************************************************************************)
(* Vocabulary of the properties, stated on the grid alone.                 *)
(***************************************************************************)

(* Column c, if it is a column at all, has an empty cell. *)
HasRoom(b, c) == c \in Cols /\ \E r \in Rows : b[r][c] = 0

RoomColumns(b) == {c \in Cols : HasRoom(b, c)}

FirstRoomColumn(b) == CHOOSE c \in RoomColumns(b) : \A d \in RoomColumns(b) : c <= d

(* Mark p occupies four cells in an unbroken line: from some cell, three   *)
(* more steps to the right, upwards, up-right or up-left stay on the grid  *)
(* and on p.                                                               *)
Directions == {<<0, 1>>, <<1, 0>>, <<1, 1>>, <<1, 0 - 1>>}

FourInLine(b, p) ==
    \E r \in Rows, c \in Cols, d \in Directions :
        \A k \in 0 .. 3 :
            /\ (r + k * d[1]) \in Rows
            /\ (c + k * d[2]) \in Cols
            /\ b[r + k * d[1]][c + k * d[2]] = p

(* The number of cells of grid b that hold v. *)
Count(b, v) == Cardinality({rc \in Rows \X Cols : b[rc[1]][rc[2]] = v})

(* The transition is a Game.step call. *)
StepCalled == call'.op = "step"

(***************************************************************************)
(* C1.  While some column has room, Game.step with an argument that is not *)
(* a legal action (an integer outside 0..6, or a full column) returns      *)
(* reward -1 and done True, and leaves the grid and the mover that the     *)
(* engine's step on the lowest-index column with room produces, also when  *)
(* that substituted move completes four in a line.                         *)
(***************************************************************************)
C1_IllegalStepPenalised ==
    [][(/\ StepCalled
        /\ ~HasRoom(board, call'.action)
        /\ RoomColumns(board) # {})
       => LET e == Connect4_step(board, player, FirstRoomColumn(board))
          IN  /\ ~raised'
              /\ reward' = 0 - 1
              /\ done' = TRUE
              /\ board' = e.board
              /\ player' = e.player
              /\ observation' = flatten(e.observation)]_vars

(* The grid after n steps that were all replaced by the first legal       *)
(* action: the columns fill from the left, each + - + - + - from the       *)
(* bottom.                                                                 *)
FilledFromLeft(n) ==
    [j \in Rows |-> [i \in Cols |->
        IF NumRows * i + j < n THEN (IF j % 2 = 0 THEN 1 ELSE 0 - 1) ELSE 0]]

(* The nineteenth step in a row with the out-of-range argument 10: the     *)
(* substituted move, the bottom cell of column 3, gave +1 its only four in *)
(* a line (row 0, columns 0..3), and the step was penalised all the same.  *)
C1_Witness ==
    /\ call = [op |-> "step", action |-> 10]
    /\ board = FilledFromLeft(19)
    /\ FourInLine(board, 1)
    /\ ~FourInLine(FilledFromLeft(18), 1)
    /\ reward = 0 - 1
    /\ done = TRUE

(***************************************************************************)
(* C2.  Game.step with an argument that is not a legal action never        *)
(* raises: it completes and returns reward -1 and done True, in every      *)
(* state, the full grid included.                                          *)
(***************************************************************************)
C2_IllegalStepNeverRaises ==
    [][(StepCalled /\ ~HasRoom(board, call'.action))
       => (~raised' /\ reward' = 0 - 1 /\ done' = TRUE)]_vars

(* The step that raises: a step on the full grid. *)
C2_RaisedOnFullGrid ==
    /\ call.op = "step"
    /\ raised
    /\ RoomColumns(board) = {}
    /\ moves = NumRows * NumCols

(***************************************************************************)
(* C3.  After a legal move by mover p, done is true exactly when p has     *)
(* four of its marks in an unbroken horizontal, vertical, ascending or     *)
(* descending diagonal line anywhere on the grid, and the reward is 1      *)
(* exactly when done is true and 0 otherwise.  In particular, while +1     *)
(* stacks column 0 and -1 answers in column 6, done is true on the fourth  *)
(* placement in column 0 (the seventh move) and on no earlier move.        *)
(***************************************************************************)

(* The grid after n moves of that game. *)
Stacked(n) ==
    [j \in Rows |-> [i \in Cols |->
        IF i = 0 /\ j < (n + 1) \div 2 THEN 1
        ELSE IF i = NumCols - 1 /\ j < n \div 2 THEN 0 - 1
        ELSE 0]]

C3_DoneIffMoverHasFour ==
    [][(StepCalled /\ HasRoom(board, call'.action))
       => /\ done' = FourInLine(board', player)
          /\ reward' = (IF done' THEN 1 ELSE 0)
          /\ \A n \in 1 .. 7 : board' = Stacked(n) => (done' <=> n = 7)]_vars

(* The fourth placement in column 0 has just been made and has won. *)
C3_Witness ==
    /\ call = [op |-> "step", action |-> 0]
    /\ board = Stacked(7)
    /\ done = TRUE
    /\ reward = 1

(***************************************************************************)
(* C4.  A legal action c writes the mover's mark into the lowest empty row *)
(* of column c and nowhere else: that one cell goes from 0 to the mover's  *)
(* mark, the other 41 cells keep their value, the number of occupied cells *)
(* grows by one, and the mover becomes the opponent.                       *)
(***************************************************************************)
LowestEmpty(b, c) == CHOOSE r \in Rows : b[r][c] = 0 /\ \A k \in 0 .. (r - 1) : b[k][c] # 0

Occupied(b) == Count(b, 1) + Count(b, 0 - 1)

C4_LegalMovePlacesOneMark ==
    [][(StepCalled /\ HasRoom(board, call'.action))
       => LET c == call'.action
              r == LowestEmpty(board, c)
          IN  /\ player \in {1, 0 - 1}
              /\ board[r][c] = 0
              /\ board'[r][c] = player
              /\ \A j \in Rows, i \in Cols :
                    (j # r \/ i # c) => board'[j][i] = board[j][i]
              /\ Occupied(board') = Occupied(board) + 1
              /\ player' = 0 - player]_vars

(* The second move of an episode was legal and landed on top of the first, *)
(* in column 3.                                                            *)
C4_Witness ==
    /\ call = [op |-> "step", action |-> 3]
    /\ reward = 0
    /\ moves = 2
    /\ board[0][3] = 1
    /\ board[1][3] = 0 - 1
    /\ board[2][3] = 0
    /\ player = 1

(***************************************************************************)
(* C5.  legal_actions() is a strictly ascending (hence duplicate-free)     *)
(* sequence of columns of 0..6, and column c is in it exactly when the top *)
(* cell (row 5) of column c is empty.                                      *)
(***************************************************************************)
C5_LegalActionsAreOpenColumns ==
    LET l == legal_actions
    IN  /\ \A k \in 1 .. Len(l) : l[k] \in 0 .. 6
        /\ \A k \in 1 .. (Len(l) - 1) : l[k] < l[k + 1]
        /\ \A c \in 0 .. 6 : In(c, l) <=> board[5][c] = 0

(* Columns 0 and 3 are full, column 1 is partly filled, the others are     *)
(* open: the list is 1, 2, 4, 5, 6.                                        *)
C5_Witness ==
    /\ board[5][0] # 0
    /\ board[5][3] # 0
    /\ board[0][1] # 0
    /\ board[5][1] = 0
    /\ legal_actions = <<1, 2, 4, 5, 6>>

(***************************************************************************)
(* C6.  Game.reset(), from whatever state, returns 42 zeros, leaves the    *)
(* grid all-empty and makes to_play() return 0.                            *)
(***************************************************************************)
C6_ResetGivesEmptyGame ==
    call.op = "reset"
    => /\ Len(observation) = 42
       /\ \A k \in 1 .. 42 : observation[k] = 0
       /\ \A j \in Rows, i \in Cols : board[j][i] = 0
       /\ to_play = 0

(* A reset right after a step that won (the driver still holds that step's *)
(* reward 1 and done).                                                     *)
C6_Witness ==
    /\ call.op = "reset"
    /\ done = TRUE
    /\ reward = 1

(***************************************************************************)
(* C7.  Count invariant: the number of +1 cells minus the number of -1     *)
(* cells is 0 or 1, 0 exactly when the mover is +1 and 1 exactly when the  *)
(* mover is -1.                                                            *)
(***************************************************************************)
C7_CountInvariant ==
    LET d == Count(board, 1) - Count(board, 0 - 1)
    IN  /\ d \in {0, 1}
        /\ d = 0 <=> player = 1
        /\ d = 1 <=> player = 0 - 1

(* Both players have four in a line: the episode went on after the step   *)
(* that completed the first line had returned done.                        *)
C7_Witness ==
    /\ call.op = "step"
    /\ FourInLine(board, 1)
    /\ FourInLine(board, 0 - 1)
    /\ Count(board, 1) - Count(board, 0 - 1) = 1
    /\ player = 0 - 1

(***************************************************************************)
(* C8.  Gravity invariant: a cell is non-empty only if every cell below it *)
(* in its column is non-empty.                                             *)
(***************************************************************************)
C8_GravityInvariant ==
    \A j \in Rows, i \in Cols :
        board[j][i] # 0 => \A k \in 0 .. (j - 1) : board[k][i] # 0

(* A column three marks high next to an empty one. *)
C8_Witness ==
    /\ board[2][2] # 0
    /\ board[3][2] = 0
    /\ board[0][3] = 0
    /\ moves = 5

(***************************************************************************)
(* C9.  The observation returned by Game.step and Game.reset has 42        *)
(* entries in row-major order from the point of view of the player now to  *)
(* move: the entry at 0-based index 7*r + c is grid[r][c] times the new    *)
(* mover's mark, so the mover-to-act's pieces read +1, the opponent's -1   *)
(* and empty cells 0.                                                      *)
(***************************************************************************)
C9_ObservationFromMoversView ==
    call.op \in {"reset", "step"}
    => /\ Len(observation) = 42
       /\ \A r \in 0 .. 5, c \in 0 .. 6 :
            LET o == observation[7 * r + c + 1]
            IN  /\ o = board[r][c] * player
                /\ o = 1 <=> board[r][c] = player
                /\ o = 0 - 1 <=> board[r][c] = 0 - player
                /\ o = 0 <=> board[r][c] = 0

(* After +1 in column 2, -1 in column 4 and +1 on top of column 2, -1 is   *)
(* to move and reads its own piece as +1 (index 4) and the two raw +1      *)
(* marks as -1 (indices 2 and 9).                                          *)
C9_Witness ==
    /\ call = [op |-> "step", action |-> 2]
    /\ moves = 3
    /\ player = 0 - 1
    /\ board[0][4] = 0 - 1
    /\ observation[5] = 1
    /\ observation[3] = 0 - 1
    /\ observation[10] = 0 - 1

(***************************************************************************)
(* C10.  to_play() is 0 exactly when the mover is +1 and 1 exactly when it *)
(* is -1, so it is an element of the configured players list; after k      *)
(* completed Game.step calls since the last reset it is k mod 2.           *)
(***************************************************************************)
C10_ToPlay ==
    /\ to_play = 0 <=> player = 1
    /\ to_play = 1 <=> player = 0 - 1
    /\ In(to_play, players)
    /\ to_play = moves % 2

(* Three steps completed, the third one penalised: player 1 is to move. *)
C10_Witness ==
    /\ call.op = "step"
    /\ moves = 3
    /\ reward = 0 - 1
    /\ to_play = 1

(***************************************************************************)
(* C11.  Connect4.step called directly with a full column or with a column *)
(* index outside 0..6 is reported as an error and leaves the grid and the  *)
(* mover unchanged.                                                        *)
(***************************************************************************)
C11_DirectIllegalStepRejected ==
    [][(call'.op = "engine_step" /\ ~HasRoom(board, call'.action))
       => (raised' /\ board' = board /\ player' = player)]_vars

(* Column 0 is full, a direct step(0) has returned normally, and the mover *)
(* has flipped without a mark being placed: +1 and -1 have as many marks   *)
(* and yet -1 is to move.                                                  *)
C11_FullColumnAccepted ==
    /\ call = [op |-> "engine_step", action |-> 0]
    /\ ~raised
    /\ \A j \in Rows : board[j][0] # 0
    /\ Count(board, 1) = Count(board, 0 - 1)
    /\ player = 0 - 1

(***************************************************************************)
(* C12.  legal_actions() and to_play() are pure queries: a call of either  *)
(* leaves the grid and the mover unchanged, and a call of legal_actions()  *)
(* that follows another one, with no step or reset in between, returns the *)
(* same sequence.                                                          *)
(***************************************************************************)
C12_QueriesArePure ==
    [][/\ call'.op \in {"legal_actions", "to_play"}
            => (board' = board /\ player' = player)
       /\ (call.op = "legal_actions" /\ call'.op = "legal_actions")
            => call'.returned = call.returned
       /\ (call.op = "legal_actions" /\ call'.op = "to_play")
            => legal_columns(board') = call.returned]_vars

(* legal_actions() called in mid-game, column 0 full: it returned the      *)
(* columns 1..6 and the grid still has its seven marks and -1 to move.     *)
C12_Witness ==
    /\ call = [op |-> "legal_actions", returned |-> <<1, 2, 3, 4, 5, 6>>]
    /\ moves = 7
    /\ Count(board, 1) + Count(board, 0 - 1) = 7
    /\ player = 0 - 1

(***************************************************************************)
(* C13.  A draw is not detected: a legal move that fills the last empty    *)
(* cell and gives the mover no four in a line returns done False and       *)
(* reward 0; and whenever a step leaves the grid full, done is True only   *)
(* with a four in a line of the mover, never for the full grid alone.      *)
(***************************************************************************)
C13_NoDrawDetection ==
    [][(StepCalled /\ HasRoom(board, call'.action) /\ Occupied(board') = NumRows * NumCols)
       => /\ ~FourInLine(board', player) => (done' = FALSE /\ reward' = 0 /\ ~raised')
          /\ done' => FourInLine(board', player)
          /\ is_finished(board', player) = FourInLine(board', player)]_vars

(* The 42nd move of the game whose rows are laid in the order draw_row:    *)
(* the grid is full, neither player has four in a line, and the step       *)
(* returned done False and reward 0.                                       *)
C13_Witness ==
    /\ call = [op |-> "step", action |-> draw_row[NumCols]]
    /\ Occupied(board) = NumRows * NumCols
    /\ ~FourInLine(board, 1)
    /\ ~FourInLine(board, 0 - 1)
    /\ ~raised
    /\ done = FALSE
    /\ reward = 0

MoversView(b, p) ==
    [j \in Rows |-> [i \in Cols |->
        IF b[j][i] = p THEN 1 ELSE IF b[j][i] = 0 - p THEN 0 - 1 ELSE 0]]

C15_OnlyLastMoverHasLine ==
    /\ ~FourInLine(board, player)
    /\ ~(FourInLine(board, 1) /\ FourInLine(board, 0 - 1))
    /\ ~raised
    /\ call.op = "step" => (done <=> (FourInLine(board, 1) \/ FourInLine(board, 0 - 1)))
    /\ call.op # "step" => ~FourInLine(board, 0 - player)

(* The end of an episode won by -1 on a grid with three full rows under    *)
(* the line: the step returned done True, -1 moved last and has the line,  *)
(* +1 has none.                                                            *)
C15_Witness ==
    /\ call.op = "step"
    /\ done
    /\ player = 1
    /\ FourInLine(board, 0 - 1)
    /\ ~FourInLine(board, 1)
    /\ Occupied(board) >= 3 * NumCols + 8

(***************************************************************************)
(* C16.  done is not absorbing.  After a legal step that returned done     *)
(* True and reward 1, the next legal step (no reset in between) is         *)
(* accepted like any other: it returns done True and reward 1 if its own   *)
(* mover now has four in a line, and done False and reward 0 otherwise,    *)
(* while the earlier winner's line is still on the grid.  C16_Witness is a *)
(* reachable state of the second kind.                                     *)
(***************************************************************************)
C16_StepAfterWinJudgesMoverOnly ==
    [][(/\ call.op = "step" /\ ~raised /\ done /\ reward = 1
        /\ StepCalled /\ HasRoom(board, call'.action))
       => /\ ~raised'
          /\ Occupied(board') = Occupied(board) + 1
          /\ FourInLine(board', 0 - player)
          /\ done' = FourInLine(board', player)
          /\ reward' = IF FourInLine(board', player) THEN 1 ELSE 0]_vars

(* The script lifted(1, pair_script(2, 3)): after the bottom row, -1       *)
(* stacks on column 2 and +1 on column 3.  Move 12 gave -1 the column 2,   *)
(* rows 0..3, and returned done True, reward 1; this is the state after    *)
(* move 13, +1's third mark on column 3, which returned done False and     *)
(* reward 0 with -1's line on the grid and -1 to move.                     *)
C16_Witness ==
    /\ call = [op |-> "step", action |-> 3]
    /\ moves = 13
    /\ Occupied(board) = 13
    /\ \A i \in Cols : board[0][i] # 0
    /\ \A j \in 0 .. 3 : board[j][2] = 0 - 1
    /\ \A j \in 1 .. 3 : board[j][3] = 1
    /\ player = 0 - 1
    /\ ~FourInLine(board, 1)
    /\ ~raised
    /\ done = FALSE
    /\ reward = 0

(***************************************************************************)
(* C17.  Bounded episode length: every Game.step call that returns, with a *)
(* legal action or with a substituted one, adds exactly one mark to the    *)
(* grid, so the steps completed since the last reset number the occupied   *)
(* cells and are at most 42; a step call on the grid of 42 occupied cells  *)
(* does not return a result (it raises), and only such a call raises.      *)
(***************************************************************************)
C17_StepsCountOccupiedCells ==
    [][StepCalled
       => /\ ~raised' => (Occupied(board') = Occupied(board) + 1 /\ moves' = moves + 1)
          /\ raised' <=> Occupied(board) = NumRows * NumCols
          /\ raised' => (board' = board /\ moves' = moves)
          /\ moves' = Occupied(board')
          /\ moves' <= NumRows * NumCols]_vars

(* The 42nd step in a row with the out-of-range argument 10: the           *)
(* substituted move filled the last cell, the top of column 6, and the     *)
(* step returned.                                                          *)
C17_Witness ==
    /\ call = [op |-> "step", action |-> 10]
    /\ ~raised
    /\ moves = NumRows * NumCols
    /\ board = FilledFromLeft(NumRows * NumCols)
    /\ reward = 0 - 1

(***************************************************************************)
(* C18.  With training_steps = 10000, visit_softmax_temperature_fn(t) is   *)
(* 1.0 for t < 5000, 0.5 for 5000 <= t < 7500 and 0.25 for t >= 7500; it   *)
(* is positive, and a call with a larger t never returns a larger          *)
(* temperature than the call before it.  (Temperatures in hundredths.)     *)
(***************************************************************************)
C18_TemperatureSchedule ==
    [][call'.op = "visit_softmax_temperature_fn"
       => LET t == call'.trained_steps
              v == call'.returned
          IN  /\ t < 5000 => v = 100
              /\ (5000 <= t /\ t < 7500) => v = 50
              /\ t >= 7500 => v = 25
              /\ v > 0
              /\ (call.op = "visit_softmax_temperature_fn" /\ call.trained_steps <= t)
                    => v <= call.returned]_vars

(* The first step count that gets the lowest temperature. *)
C18_Witness ==
    call = [op |-> "visit_softmax_temperature_fn", trained_steps |-> 7500, returned |-> 25]

====
